---- MODULE Spec2Model ----
(***************************************************************************)
(* Model of the Google Photos downloader (src/main.py): the paginated      *)
(* enumeration of a scope, the per-month CSV cache, the pool of download   *)
(* workers of handle_items and the sequence of scopes of main /            *)
(* download_albums, run once or several times against the same remote.    *)
(***************************************************************************)
EXTENDS Naturals, Integers, Sequences, FiniteSets, TLC

\* ------------------------------------------------------------------ bounds

\* Records the remote holds over all scopes together.
MaxItems == 2
\* Records the remote puts on one page of the pipeline ("pageSize": "100" asks for
\* up to 100).
PageLen == 1
\* Pages and records of a scope in the enumeration specification.
MaxPages == 3
MaxEnumItems == 2
\* Times the program is started on the same working directory.
NumRuns == 2
\* Records of the scope of the worker-pool specification.
MaxPoolItems == 9
\* Years the command-line arguments of the iteration specification range over.
MaxYears == 2
\* Characters of a field of a record written to a CSV file.
MaxFieldLen == 2

\* --------------------------------------------------------------- constants

\* multiprocessing.Pool(processes=8)
processes == 8

BASE_PATH == "./photos"

\* body["pageToken"] = None
NoToken == 0

\* The first year of the command lines considered (valid_year accepts any
\* positive integer).
FirstYear == 2023

\* ------------------------------------------------------------- the remote

\* creationTime strings: second precision, sub-second precision, and one
\* that matches neither format.  Both well-formed ones name the same day.
TsSec == [fmt |-> "sec", year |-> 2023, month |-> 12, day |-> 1]
TsFrac == [fmt |-> "frac", year |-> 2023, month |-> 12, day |-> 1]
TsBad == [fmt |-> "bad", year |-> 0, month |-> 0, day |-> 0]

\* What the server answers to a GET of a baseUrl (the suffix does not change
\* the length): the content-length header ("absent": no header) and the
\* number of chunks iter_content yields before the stream breaks
\* (cut = length: the stream does not break).
UrlTable ==
    [u2 |-> [header |-> "2", length |-> 2, cut |-> 2],
     u1 |-> [header |-> "1", length |-> 1, cut |-> 1],
     u0 |-> [header |-> "0", length |-> 0, cut |-> 0],
     un |-> [header |-> "absent", length |-> 2, cut |-> 2],
     uc |-> [header |-> "2", length |-> 2, cut |-> 1]]

\* The media items the remote may hold.  mimeType "absent": the key is
\* missing from the item.  R1 and R2 share filename and capture day.
R1 == [id |-> "i1", filename |-> "a.jpg", creationTime |-> TsSec,
       baseUrl |-> "u2", mimeType |-> "image/jpeg"]
R2 == [id |-> "i2", filename |-> "a.jpg", creationTime |-> TsFrac,
       baseUrl |-> "u1", mimeType |-> "video/mp4"]
R3 == [id |-> "i3", filename |-> "b.jpg", creationTime |-> TsSec,
       baseUrl |-> "u0", mimeType |-> "absent"]
R4 == [id |-> "i4", filename |-> "b.jpg", creationTime |-> TsBad,
       baseUrl |-> "u1", mimeType |-> "image/jpeg"]
R5 == [id |-> "i5", filename |-> "b.jpg", creationTime |-> TsFrac,
       baseUrl |-> "uc", mimeType |-> "video/mp4"]
R6 == [id |-> "i6", filename |-> "c.jpg", creationTime |-> TsSec,
       baseUrl |-> "un", mimeType |-> "image/jpeg"]

RecordList == <<R1, R2, R3, R4, R5, R6>>
RecordSet == {RecordList[k] : k \in 1..Len(RecordList)}

\* --------------------------------------------------------- pure functions

SeqsUpTo(S, n) == UNION {[1..k -> S] : k \in 0..n}

RECURSIVE Concat(_)
Concat(ss) == IF ss = <<>> THEN <<>> ELSE Head(ss) \o Concat(Tail(ss))

RECURSIVE SumSeq(_)
SumSeq(s) == IF s = <<>> THEN 0 ELSE Head(s) + SumSeq(Tail(s))

\* parse_timestamp: "%Y-%m-%dT%H:%M:%SZ", then "%Y-%m-%dT%H:%M:%S.%fZ";
\* the second strptime's ValueError is not caught.
parse_timestamp(ts) ==
    IF ts.fmt = "sec" THEN [ok |-> TRUE, year |-> ts.year, month |-> ts.month, day |-> ts.day]
    ELSE IF ts.fmt = "frac" THEN [ok |-> TRUE, year |-> ts.year, month |-> ts.month, day |-> ts.day]
    ELSE [ok |-> FALSE, year |-> 0, month |-> 0, day |-> 0]

\* create_folder_structure + os.path.join(folder_path, filename)
FilePath(base_path, item) ==
    LET t == parse_timestamp(item.creationTime)
    IN  [base |-> base_path, year |-> t.year, month |-> t.month, day |-> t.day,
         filename |-> item.filename]

\* item.get('mimeType', '')
MediaType(item) == IF item.mimeType = "absent" THEN "" ELSE item.mimeType

\* "video" in media_type
HasVideo(media_type) == media_type \in {"video/mp4"}

\* Mutant: the '=d' suffix whatever the mimeType.
DownloadUrl_AlwaysD(item) == [base |-> item.baseUrl, suffix |-> "=d"]

\* url = f"{base_url}=dv" if "video" in media_type else f"{base_url}=d"
DownloadUrl(item) ==
    [base |-> item.baseUrl,
     suffix |-> IF HasVideo(MediaType(item)) THEN "=dv" ELSE "=d"]

\* int(response.headers.get('content-length', 0))
FileSize(url) ==
    LET h == UrlTable[url.base].header
    IN  IF h = "absent" THEN 0 ELSE IF h = "0" THEN 0 ELSE IF h = "1" THEN 1 ELSE 2

\* save_items_to_csv: the rows written after the header
CsvRow(item) ==
    [id |-> item.id, filename |-> item.filename,
     creationTime |-> item.creationTime, baseUrl |-> item.baseUrl]

save_items_to_csv(its) == [k \in 1..Len(its) |-> CsvRow(its[k])]

\* Mutant: the items built from the rows are given a video mimeType.
CsvItem_Video(row) ==
    [id |-> row.id, filename |-> row.filename, creationTime |-> row.creationTime,
     baseUrl |-> row.baseUrl, mimeType |-> "video/mp4"]

\* load_items_from_csv: no mimeType key in the items built from the rows
CsvItem(row) ==
    [id |-> row.id, filename |-> row.filename, creationTime |-> row.creationTime,
     baseUrl |-> row.baseUrl, mimeType |-> "absent"]

load_items_from_csv(rows) == [k \in 1..Len(rows) |-> CsvItem(rows[k])]

\* Mutant: the loop stops before the end pair.
RECURSIVE iterate_months_ExcludesEnd(_, _, _, _)
iterate_months_ExcludesEnd(cy, cm, ey, em) ==
    IF cy < ey \/ (cy = ey /\ cm < em)
    THEN <<[kind |-> "month", year |-> cy, month |-> cm, album |-> ""]>>
         \o (IF cm = 12 THEN iterate_months_ExcludesEnd(cy + 1, 1, ey, em)
             ELSE iterate_months_ExcludesEnd(cy, cm + 1, ey, em))
    ELSE <<>>

\* iterate_months, as the list it yields
RECURSIVE iterate_months(_, _, _, _)
iterate_months(cy, cm, ey, em) ==
    IF cy < ey \/ (cy = ey /\ cm <= em)
    THEN <<[kind |-> "month", year |-> cy, month |-> cm, album |-> ""]>>
         \o (IF cm = 12 THEN iterate_months(cy + 1, 1, ey, em)
             ELSE iterate_months(cy, cm + 1, ey, em))
    ELSE <<>>

\* csv_file = f'video_{year}_{month}.csv'
csv_file(scope) == [prefix |-> "video", year |-> scope.year, month |-> scope.month]

\* base_path of handle_items: BASE_PATH for a month, ./albums/<title> for an album
BasePath(scope) == IF scope.kind = "month" THEN BASE_PATH ELSE scope.album

AlbumScope(title) == [kind |-> "album", year |-> 0, month |-> 0, album |-> title]

\* albums + shared_albums of download_albums
AlbumScopes == <<AlbumScope("./albums/A"), AlbumScope("./albums/B")>>

\* A search request that raises.
ErrPage == [err |-> TRUE, mediaItems |-> <<>>]

AllItems(lib) == Concat([k \in 1..Len(lib) |-> lib[k].mediaItems])

\* The ways to cut a listing of length len into n pages (a page may be empty):
\* where each page ends.
Cuts(len, n) ==
    {c \in [1..n -> 0..len] : c[n] = len /\ \A k \in 1..(n - 1) : c[k] <= c[k + 1]}

Split(s, c) ==
    [k \in 1..Len(c) |->
        [err |-> FALSE,
         mediaItems |-> SubSeq(s, (IF k = 1 THEN 0 ELSE c[k - 1]) + 1, c[k])]]

\* The listing s served in n requests, the last of which raises.
ErrLibs(s, n) ==
    IF n = 1 THEN (IF s = <<>> THEN {<<ErrPage>>} ELSE {})
    ELSE {Append(Split(s, c), ErrPage) : c \in Cuts(Len(s), n - 1)}

\* What the remote may hold for one filter: one of the listings, served in up
\* to maxPages pages; only the last request may raise.
Libraries(listings, maxPages) ==
    UNION {{Split(sn[1], c) : c \in Cuts(Len(sn[1]), sn[2])} \cup ErrLibs(sn[1], sn[2]) :
            sn \in listings \X (1..maxPages)}

\* Listings of up to n distinct media items, in the library's order.
Listings(n) ==
    {[k \in 1..Len(ix) |-> RecordList[ix[k]]] :
        ix \in {x \in SeqsUpTo(1..Len(RecordList), n) :
                    \A a, b \in 1..Len(x) : a < b => x[a] < x[b]}}

\* ------------------------------------------------------------------ state

VARIABLES
    args,           \* the command line: start and end year and month
    mode,           \* "months": main; "albums": download_albums
    ignore_cache,   \* --disable-cache
    scopes,         \* the scopes in processing order
    remote,         \* the remote: filter -> pages
    run,            \* which start of the program this is
    pc,             \* where the coordinating flow is
    scopeIdx,       \* scopes taken from the iterator so far
    page_token,     \* body["pageToken"]
    items,          \* the records of the current scope
    reqLog,         \* search requests issued for the current scope
    cache,          \* the CSV files of the working directory: name -> rows
    disk,           \* the files below the output directories: path -> length
    wpc,            \* per task: where its download_item is
    wres,           \* per task: what download_item returned or raised
    woff,           \* per task: chunks written so far
    wurl,           \* per task: the URL fetched
    outqueue,       \* the pool's result queue, in completion order
    skipped_count,  \* handle_items
    results,        \* handle_items
    summary,        \* the totals handle_items printed for the current scope
    written,        \* chunks written to disk since this run started
    existed         \* tasks whose target path held a file when the scope started

vars == <<args, mode, ignore_cache, scopes, remote, run, pc, scopeIdx, page_token, items,
          reqLog, cache, disk, wpc, wres, woff, wurl, outqueue, skipped_count,
          results, summary, written, existed>>

inputs == <<mode, ignore_cache, scopes, remote>>
poolVars == <<wpc, wres, woff, wurl, outqueue, skipped_count, results, summary, existed>>

NoResult == [kind |-> "none", file_size |-> 0, is_skipped |-> FALSE]
Raised == [kind |-> "exc", file_size |-> 0, is_skipped |-> FALSE]
\* return 0, filename, 0, file_path, True
SkipResult == [kind |-> "ok", file_size |-> 0, is_skipped |-> TRUE]
\* return file_size, filename, human_readable_size, file_path, False
DoneResult(file_size) == [kind |-> "ok", file_size |-> file_size, is_skipped |-> FALSE]

NoUrl == [base |-> "", suffix |-> ""]
NoSummary == [printed |-> FALSE, downloaded |-> 0, skipped |-> 0, total_size |-> 0]

Range(s) == {s[k] : k \in 1..Len(s)}
Tasks == DOMAIN wpc
Scope == scopes[scopeIdx]
TargetPath(i) == FilePath(BasePath(Scope), items[i])
Exists(path) == path \in DOMAIN disk
\* Tasks a pool worker is executing.
InProgress == {i \in Tasks : wpc[i] \in {"start", "fetch", "open", "write"}}

\* ------------------------------------------------------------------- Init

\* A listing served in full pages of len records (a last, shorter one if needed).
RECURSIVE Paginate(_, _)
Paginate(s, len) ==
    IF Len(s) <= len THEN <<[err |-> FALSE, mediaItems |-> s]>>
    ELSE <<[err |-> FALSE, mediaItems |-> SubSeq(s, 1, len)]>>
         \o Paginate(SubSeq(s, len + 1, Len(s)), len)

\* The same, with the request after the pages of s raising.
FailAfter(s, len) == IF s = <<>> THEN <<ErrPage>> ELSE Append(Paginate(s, len), ErrPage)

\* The libraries of the pipeline's remote.
PipelineLibs ==
    {Paginate(s, PageLen) : s \in Listings(MaxItems)}
    \cup {FailAfter(s, PageLen) : s \in Listings(MaxItems)}

\* The remotes over the scopes ss that hold at most n records over all scopes
\* together.
RECURSIVE Remotes(_, _)
Remotes(ss, n) ==
    IF ss = <<>> THEN {<<>>}
    ELSE UNION {{(Head(ss) :> lib) @@ r : r \in Remotes(Tail(ss), n - Len(AllItems(lib)))} :
                lib \in {x \in PipelineLibs : Len(AllItems(x)) <= n}}

InitRemote == remote \in Remotes(scopes, MaxItems)

\* The command line of a month range, and that of download_albums (none).
Args(sy, sm, ey, em) ==
    [start_year |-> sy, start_month |-> sm, end_year |-> ey, end_month |-> em]
NoArgs == Args(0, 0, 0, 0)

\* The first run of the program, in an empty working directory.
InitDir ==
    /\ run = 1
    /\ scopeIdx = 0
    /\ page_token = NoToken
    /\ items = <<>>
    /\ reqLog = <<>>
    /\ cache = <<>>
    /\ disk = <<>>
    /\ wpc = <<>>
    /\ wres = <<>>
    /\ woff = <<>>
    /\ wurl = <<>>
    /\ outqueue = <<>>
    /\ skipped_count = 0
    /\ results = <<>>
    /\ summary = NoSummary
    /\ written = 0
    /\ existed = {}

\* The program is started for the first time and has parsed its arguments.
InitState ==
    /\ pc = "main"
    /\ InitDir

\* python main.py --start_year 2023 --start_month 12 --end_year .. --end_month ..
InitMonths ==
    /\ mode = "months"
    /\ ignore_cache \in BOOLEAN
    /\ \E e \in {<<2023, 12>>, <<2024, 1>>} :
            /\ args = Args(2023, 12, e[1], e[2])
            /\ scopes = iterate_months(2023, 12, e[1], e[2])
    /\ InitRemote
    /\ InitState

\* download_albums()
InitAlbums ==
    /\ mode = "albums"
    /\ args = NoArgs
    /\ ignore_cache = FALSE
    /\ scopes = AlbumScopes
    /\ InitRemote
    /\ InitState

Init == InitMonths \/ InitAlbums

\* ---------------------------------------------------------- handle_items

\* handle_items up to the creation of the pool: every record becomes a task.
EnterPool(scope, its) ==
    /\ items' = its
    /\ wpc' = [k \in 1..Len(its) |-> "queued"]
    /\ wres' = [k \in 1..Len(its) |-> NoResult]
    /\ woff' = [k \in 1..Len(its) |-> 0]
    /\ wurl' = [k \in 1..Len(its) |-> NoUrl]
    /\ outqueue' = <<>>
    /\ skipped_count' = 0
    /\ results' = <<>>
    /\ summary' = NoSummary
    /\ existed' = {k \in 1..Len(its) :
                     /\ parse_timestamp(its[k].creationTime).ok
                     /\ Exists(FilePath(BasePath(scope), its[k]))}
    /\ pc' = "pool"

\* No pool: the with block of handle_items has been left (or not been entered).
NoPool ==
    /\ wpc' = <<>>
    /\ wres' = <<>>
    /\ woff' = <<>>
    /\ wurl' = <<>>
    /\ outqueue' = <<>>
    /\ skipped_count' = 0
    /\ results' = <<>>
    /\ summary' = NoSummary
    /\ existed' = {}

\* ------------------------------------------- handle_month, download_albums

\* Mutant: the --disable-cache override is not looked at.
UseCache_IgnoresOverride(scope) == csv_file(scope) \in DOMAIN cache

\* if not ignore_cache and os.path.exists(csv_file)
UseCache(scope) == ~ignore_cache /\ csv_file(scope) \in DOMAIN cache

\* main's loop takes the next month; the month's CSV file is there and used.
HandleMonthFromCsv ==
    /\ pc = "main" /\ mode = "months" /\ scopeIdx < Len(scopes)
    /\ UseCache(scopes[scopeIdx + 1])
    /\ scopeIdx' = scopeIdx + 1
    /\ reqLog' = <<>>
    /\ page_token' = NoToken
    /\ EnterPool(scopes[scopeIdx + 1],
                 load_items_from_csv(cache[csv_file(scopes[scopeIdx + 1])]))
    /\ UNCHANGED <<args, inputs, run, cache, disk, written>>

\* main's loop takes the next month; its records are to be fetched.
HandleMonthFromApi ==
    /\ pc = "main" /\ mode = "months" /\ scopeIdx < Len(scopes)
    /\ ~UseCache(scopes[scopeIdx + 1])
    /\ scopeIdx' = scopeIdx + 1
    /\ reqLog' = <<>>
    /\ page_token' = NoToken
    /\ items' = <<>>
    /\ pc' = "fetch"
    /\ NoPool
    /\ UNCHANGED <<args, inputs, run, cache, disk, written>>

\* download_albums' loop takes the next album.
DownloadAlbum ==
    /\ pc = "main" /\ mode = "albums" /\ scopeIdx < Len(scopes)
    /\ scopeIdx' = scopeIdx + 1
    /\ reqLog' = <<>>
    /\ page_token' = NoToken
    /\ items' = <<>>
    /\ pc' = "fetch"
    /\ NoPool
    /\ UNCHANGED <<args, inputs, run, cache, disk, written>>

\* ---------------------------------------------------- fetch_items_from_api

\* The remote's answer to search(body): the page the token names.
SearchPage == remote[Scope][IF page_token = NoToken THEN 1 ELSE page_token]
NextPageToken ==
    LET p == IF page_token = NoToken THEN 1 ELSE page_token
    IN  IF p < Len(remote[Scope]) THEN p + 1 ELSE NoToken
Request == [filter |-> Scope, pageToken |-> page_token]

\* What a scope does with the items fetch_items_from_api returned.
SaveCache(its) ==
    IF mode = "months"
    THEN cache' = (csv_file(Scope) :> save_items_to_csv(its)) @@ cache
    ELSE cache' = cache

\* Mutant: the items fetched before the request that raises are saved.
SearchError_SavesPartial ==
    /\ pc = "fetch"
    /\ SearchPage.err
    /\ reqLog' = Append(reqLog, Request)
    /\ pc' = "raised"
    /\ SaveCache(items)
    /\ UNCHANGED <<args, inputs, run, scopeIdx, page_token, items, disk, written, poolVars>>

\* search(...).execute() raises: nothing catches it up to the top of the program.
SearchError ==
    /\ pc = "fetch"
    /\ SearchPage.err
    /\ reqLog' = Append(reqLog, Request)
    /\ pc' = "raised"
    /\ UNCHANGED <<args, inputs, run, scopeIdx, page_token, items, cache, disk, written, poolVars>>

\* Mutant: the page replaces the items fetched so far instead of extending them.
SearchMore_Overwrites ==
    /\ pc = "fetch"
    /\ ~SearchPage.err
    /\ NextPageToken # NoToken
    /\ reqLog' = Append(reqLog, Request)
    /\ items' = SearchPage.mediaItems
    /\ page_token' = NextPageToken
    /\ UNCHANGED <<args, inputs, run, pc, scopeIdx, cache, disk, written, poolVars>>

\* Mutant: the items fetched so far are saved to the CSV file after every page.
SearchMore_SavesEachPage ==
    /\ pc = "fetch"
    /\ ~SearchPage.err
    /\ NextPageToken # NoToken
    /\ reqLog' = Append(reqLog, Request)
    /\ items' = items \o SearchPage.mediaItems
    /\ page_token' = NextPageToken
    /\ cache' = (csv_file(Scope) :> save_items_to_csv(items \o SearchPage.mediaItems)) @@ cache
    /\ UNCHANGED <<args, inputs, run, pc, scopeIdx, disk, written, poolVars>>

\* Mutant: the response's token is not put into the body of the next request.
SearchMore_DropsToken ==
    /\ pc = "fetch"
    /\ ~SearchPage.err
    /\ NextPageToken # NoToken
    /\ reqLog' = Append(reqLog, Request)
    /\ items' = items \o SearchPage.mediaItems
    /\ page_token' = NoToken
    /\ UNCHANGED <<args, inputs, run, pc, scopeIdx, cache, disk, written, poolVars>>

\* A page with a nextPageToken: the loop goes on.
SearchMore ==
    /\ pc = "fetch"
    /\ ~SearchPage.err
    /\ NextPageToken # NoToken
    /\ reqLog' = Append(reqLog, Request)
    /\ items' = items \o SearchPage.mediaItems
    /\ page_token' = NextPageToken
    /\ UNCHANGED <<args, inputs, run, pc, scopeIdx, cache, disk, written, poolVars>>

\* A page without nextPageToken: the loop breaks, the items are returned, saved
\* (a month) and handed to handle_items.
SearchLast ==
    /\ pc = "fetch"
    /\ ~SearchPage.err
    /\ NextPageToken = NoToken
    /\ reqLog' = Append(reqLog, Request)
    /\ page_token' = NextPageToken
    /\ SaveCache(items \o SearchPage.mediaItems)
    /\ EnterPool(Scope, items \o SearchPage.mediaItems)
    /\ UNCHANGED <<args, inputs, run, scopeIdx, disk, written>>

\* ------------------------------------------------- the pool, download_item

poolFrame == <<args, inputs, run, pc, scopeIdx, page_token, items, reqLog, cache,
               skipped_count, results, summary, existed>>

\* A task's download_item ends: the worker puts (True, value) or (False, exception)
\* into the pool's result queue and is free for the next task.
Return(i, res) ==
    /\ wres' = [wres EXCEPT ![i] = res]
    /\ wpc' = [wpc EXCEPT ![i] = "returned"]
    /\ outqueue' = Append(outqueue, res)

\* Mutant: a task is started whether or not a worker of the pool is free.
Dispatch_Unbounded(i) ==
    /\ pc = "pool"
    /\ wpc[i] = "queued"
    /\ \A j \in 1..(i - 1) : wpc[j] # "queued"
    /\ wpc' = [wpc EXCEPT ![i] = "start"]
    /\ UNCHANGED <<poolFrame, disk, written, wres, woff, wurl, outqueue>>

\* A free worker of the pool takes the next task of the task queue.
Dispatch(i) ==
    /\ pc = "pool"
    /\ wpc[i] = "queued"
    /\ \A j \in 1..(i - 1) : wpc[j] # "queued"
    /\ Cardinality(InProgress) < processes
    /\ wpc' = [wpc EXCEPT ![i] = "start"]
    /\ UNCHANGED <<poolFrame, disk, written, wres, woff, wurl, outqueue>>

\* Mutant: the download goes on whether or not the file is there.
CheckExists_Refetches(i) ==
    /\ pc = "pool"
    /\ wpc[i] = "start"
    /\ IF ~parse_timestamp(items[i].creationTime).ok
       THEN Return(i, Raised)
       ELSE /\ wpc' = [wpc EXCEPT ![i] = "fetch"]
            /\ UNCHANGED <<wres, outqueue>>
    /\ UNCHANGED <<poolFrame, disk, written, woff, wurl>>

\* download_item, lines 36-45: the timestamp does not parse (ValueError), the file
\* is there (skipped), or the download goes on.
CheckExists(i) ==
    /\ pc = "pool"
    /\ wpc[i] = "start"
    /\ IF ~parse_timestamp(items[i].creationTime).ok
       THEN Return(i, Raised)
       ELSE IF Exists(TargetPath(i))
       THEN Return(i, SkipResult)
       ELSE /\ wpc' = [wpc EXCEPT ![i] = "fetch"]
            /\ UNCHANGED <<wres, outqueue>>
    /\ UNCHANGED <<poolFrame, disk, written, woff, wurl>>

\* download_item, lines 47-56: the GET and the content-length test.
Fetch(i) ==
    /\ pc = "pool"
    /\ wpc[i] = "fetch"
    /\ wurl' = [wurl EXCEPT ![i] = DownloadUrl(items[i])]
    /\ IF FileSize(DownloadUrl(items[i])) = 0
       THEN Return(i, SkipResult)
       ELSE /\ wpc' = [wpc EXCEPT ![i] = "open"]
            /\ UNCHANGED <<wres, outqueue>>
    /\ UNCHANGED <<poolFrame, disk, written, woff>>

\* open(file_path, 'wb'): the file is created, or truncated if it is there.
OpenFile(i) ==
    /\ pc = "pool"
    /\ wpc[i] = "open"
    /\ disk' = (TargetPath(i) :> 0) @@ disk
    /\ wpc' = [wpc EXCEPT ![i] = "write"]
    /\ UNCHANGED <<poolFrame, written, wres, woff, wurl, outqueue>>

\* The length of the file after this task wrote its next chunk at its own offset.
AfterWrite(i) == IF disk[TargetPath(i)] > woff[i] + 1 THEN disk[TargetPath(i)] ELSE woff[i] + 1

\* One chunk of response.iter_content written; after the last one the file is
\* closed and download_item returns.
WriteChunk(i) ==
    /\ pc = "pool"
    /\ wpc[i] = "write"
    /\ woff[i] < UrlTable[wurl[i].base].cut
    /\ disk' = [disk EXCEPT ![TargetPath(i)] = AfterWrite(i)]
    /\ woff' = [woff EXCEPT ![i] = woff[i] + 1]
    /\ written' = written + 1
    /\ IF woff[i] + 1 = FileSize(wurl[i])
       THEN Return(i, DoneResult(FileSize(wurl[i])))
       ELSE UNCHANGED <<wpc, wres, outqueue>>
    /\ UNCHANGED <<poolFrame, wurl>>

\* iter_content raises before the declared length arrived: the with blocks close
\* the file and the exception leaves download_item.
StreamError(i) ==
    /\ pc = "pool"
    /\ wpc[i] = "write"
    /\ woff[i] = UrlTable[wurl[i].base].cut
    /\ woff[i] < FileSize(wurl[i])
    /\ Return(i, Raised)
    /\ UNCHANGED <<poolFrame, disk, written, woff, wurl>>

\* Mutant: a skipped result is counted only when it is the first to arrive.
Collect_FirstOnly ==
    /\ pc = "pool"
    /\ outqueue # <<>>
    /\ Head(outqueue).kind = "ok"
    /\ skipped_count' = skipped_count
                        + (IF Head(outqueue).is_skipped /\ results = <<>> THEN 1 ELSE 0)
    /\ results' = Append(results, Head(outqueue).file_size)
    /\ outqueue' = Tail(outqueue)
    /\ UNCHANGED <<args, inputs, run, pc, scopeIdx, page_token, items, reqLog, cache, disk,
                   written, wpc, wres, woff, wurl, summary, existed>>

\* imap_unordered yields the next result: handle_items counts it.
Collect ==
    /\ pc = "pool"
    /\ outqueue # <<>>
    /\ Head(outqueue).kind = "ok"
    /\ skipped_count' = skipped_count + (IF Head(outqueue).is_skipped THEN 1 ELSE 0)
    /\ results' = Append(results, Head(outqueue).file_size)
    /\ outqueue' = Tail(outqueue)
    /\ UNCHANGED <<args, inputs, run, pc, scopeIdx, page_token, items, reqLog, cache, disk,
                   written, wpc, wres, woff, wurl, summary, existed>>

\* imap_unordered re-raises a task's exception in handle_items: the with block
\* terminates the pool and the exception ends the program.
CollectRaise ==
    /\ pc = "pool"
    /\ outqueue # <<>>
    /\ Head(outqueue).kind = "exc"
    /\ wpc' = [i \in Tasks |-> IF i \in InProgress \/ wpc[i] = "queued" THEN "killed" ELSE wpc[i]]
    /\ pc' = "raised"
    /\ UNCHANGED <<args, inputs, run, scopeIdx, page_token, items, reqLog, cache, disk, written,
                   wres, woff, wurl, outqueue, skipped_count, results, summary, existed>>

\* Mutant: the totals are printed and the scope is left while results are missing.
EmitSummary_BeforeDrained ==
    /\ pc = "pool"
    /\ summary' = [printed |-> TRUE, downloaded |-> Len(items) - skipped_count,
                   skipped |-> skipped_count, total_size |-> SumSeq(results)]
    /\ pc' = "main"
    /\ UNCHANGED <<args, inputs, run, scopeIdx, page_token, items, reqLog, cache, disk, written,
                   wpc, wres, woff, wurl, outqueue, skipped_count, results, existed>>

\* handle_items, lines 164-168: every result is in, the totals are printed.
EmitSummary ==
    /\ pc = "pool"
    /\ Len(results) = Len(items)
    /\ summary' = [printed |-> TRUE, downloaded |-> Len(items) - skipped_count,
                   skipped |-> skipped_count, total_size |-> SumSeq(results)]
    /\ pc' = "main"
    /\ UNCHANGED <<args, inputs, run, scopeIdx, page_token, items, reqLog, cache, disk, written,
                   wpc, wres, woff, wurl, outqueue, skipped_count, results, existed>>

\* ------------------------------------------------------------ the program

\* end_date < start_date, on datetime(year, month, 1)
DateLess(y1, m1, y2, m2) == y1 < y2 \/ (y1 = y2 /\ m1 < m2)

\* Mutant: parse_arguments does not compare the two dates.
ParseArguments_NoCheck ==
    /\ pc = "args"
    /\ scopes' = iterate_months(args.start_year, args.start_month,
                                args.end_year, args.end_month)
    /\ pc' = "main"
    /\ UNCHANGED <<args, mode, ignore_cache, remote, run, scopeIdx, page_token, items,
                   reqLog, cache, disk, written, poolVars>>

\* parse_arguments, then main up to its for loop: an end date before the start
\* date ends the program with sys.exit("Error: ..."); otherwise the scopes are
\* those of iterate_months.
ParseArguments ==
    /\ pc = "args"
    /\ IF DateLess(args.end_year, args.end_month, args.start_year, args.start_month)
       THEN /\ pc' = "sys_exit"
            /\ scopes' = scopes
       ELSE /\ pc' = "main"
            /\ scopes' = iterate_months(args.start_year, args.start_month,
                                        args.end_year, args.end_month)
    /\ UNCHANGED <<args, mode, ignore_cache, remote, run, scopeIdx, page_token, items,
                   reqLog, cache, disk, written, poolVars>>

\* The iterator of scopes is exhausted: the program ends.
MainExit ==
    /\ pc = "main"
    /\ scopeIdx = Len(scopes)
    /\ pc' = "exit"
    /\ UNCHANGED <<args, inputs, run, scopeIdx, page_token, items, reqLog, cache, disk, written, poolVars>>

\* The program is started again in the same working directory.
Rerun ==
    /\ pc \in {"exit", "raised"}
    /\ run < NumRuns
    /\ run' = run + 1
    /\ pc' = "main"
    /\ scopeIdx' = 0
    /\ page_token' = NoToken
    /\ items' = <<>>
    /\ reqLog' = <<>>
    /\ wpc' = <<>>
    /\ wres' = <<>>
    /\ woff' = <<>>
    /\ wurl' = <<>>
    /\ outqueue' = <<>>
    /\ skipped_count' = 0
    /\ results' = <<>>
    /\ summary' = NoSummary
    /\ written' = 0
    /\ existed' = {}
    /\ UNCHANGED <<args, inputs, cache, disk>>

Worker ==
    \E i \in Tasks :
        \/ Dispatch(i)
        \/ CheckExists(i)
        \/ Fetch(i)
        \/ OpenFile(i)
        \/ WriteChunk(i)
        \/ StreamError(i)

Next ==
    \/ HandleMonthFromCsv
    \/ HandleMonthFromApi
    \/ DownloadAlbum
    \/ SearchError
    \/ SearchMore
    \/ SearchLast
    \/ Worker
    \/ Collect
    \/ CollectRaise
    \/ EmitSummary
    \/ MainExit
    \/ Rerun

Spec == Init /\ [][Next]_vars

\* ------------------------------------------- the enumeration of one scope

\* The libraries of the enumeration: any records (repeated ones too) on any pages.
EnumLibs == Libraries(SeqsUpTo(RecordSet, MaxEnumItems), MaxPages)

InitEnum ==
    /\ \/ /\ mode = "months"
          /\ args = Args(2023, 12, 2023, 12)
          /\ ignore_cache \in BOOLEAN
          /\ scopes = iterate_months(2023, 12, 2023, 12)
       \/ /\ mode = "albums"
          /\ args = NoArgs
          /\ ignore_cache = FALSE
          /\ scopes = <<AlbumScope("./albums/A")>>
    /\ remote \in [Range(scopes) -> EnumLibs]
    /\ InitState

\* The program up to the return of fetch_items_from_api.
NextEnum ==
    \/ HandleMonthFromApi
    \/ DownloadAlbum
    \/ SearchError
    \/ SearchMore
    \/ SearchLast

SpecEnum == InitEnum /\ [][NextEnum]_vars

\* ------------------------------------------------- one scope's worker pool

\* A scope of MaxPoolItems records, each fetched and found to have no content:
\* a content length of zero, or no content-length header, in turn.
PoolListing == [k \in 1..MaxPoolItems |-> IF k % 2 = 1 THEN R3 ELSE R6]

InitPool ==
    /\ mode = "months"
    /\ args = Args(2023, 12, 2023, 12)
    /\ ignore_cache = FALSE
    /\ scopes = iterate_months(2023, 12, 2023, 12)
    /\ remote = [sc \in Range(scopes) |-> Paginate(PoolListing, MaxPoolItems)]
    /\ InitState

\* The program of one run; no download of this scope writes or raises.
NextPool ==
    \/ HandleMonthFromApi
    \/ SearchLast
    \/ \E i \in Tasks : Dispatch(i) \/ CheckExists(i) \/ Fetch(i)
    \/ Collect
    \/ EmitSummary
    \/ MainExit

SpecPool == InitPool /\ [][NextPool]_vars

\* ------------------------------------------------ the text of a CSV file

\* The pipeline above keeps a CSV file as the rows csv.DictReader gets back from
\* it.  Here the file is the text csv.DictWriter writes (the excel dialect:
\* delimiter ',', quotechar '"', doublequote, lineterminator '\r\n', minimal
\* quoting), a field is a sequence of characters, and the reader is the csv
\* module's automaton run over the lines of the file.
delimiter == ","
quotechar == "QUOTE"
CR == "CR"
LF == "LF"
lineterminator == <<CR, LF>>
\* The characters of a field: an ordinary one and those the dialect treats.
Chars == {"a", delimiter, quotechar, CR, LF}
\* The end of a line, as the reader is told of it after the line's characters.
EOL == "EOL"

\* fieldnames = ['id', 'filename', 'creationTime', 'baseUrl']
fieldnames ==
    <<<<"i", "d">>,
      <<"f", "i", "l", "e", "n", "a", "m", "e">>,
      <<"c", "r", "e", "a", "t", "i", "o", "n", "T", "i", "m", "e">>,
      <<"b", "a", "s", "e", "U", "r", "l">>>>

\* A field is quoted when it holds the delimiter, the quotechar or a character
\* of the lineterminator.
NeedsQuotes(f) == \E k \in 1..Len(f) : f[k] \in {delimiter, quotechar, CR, LF}

\* doublequote: a quotechar inside a field is written twice.
RECURSIVE DoubleQuotes(_)
DoubleQuotes(f) ==
    IF f = <<>> THEN <<>>
    ELSE (IF Head(f) = quotechar THEN <<quotechar, quotechar>> ELSE <<Head(f)>>)
         \o DoubleQuotes(Tail(f))

\* Mutant: a field is written as it is, never quoted.
WriteField_Unquoted(f) == f

WriteField(f) ==
    IF NeedsQuotes(f) THEN <<quotechar>> \o DoubleQuotes(f) \o <<quotechar>> ELSE f

RECURSIVE JoinFields(_)
JoinFields(fs) ==
    IF fs = <<>> THEN <<>>
    ELSE IF Len(fs) = 1 THEN WriteField(fs[1])
    ELSE WriteField(Head(fs)) \o <<delimiter>> \o JoinFields(Tail(fs))

\* csv.writer.writerow
writerow(fs) == JoinFields(fs) \o lineterminator

\* DictWriter.writerow: the values of the row in the order of fieldnames
RowFields(row) == <<row.id, row.filename, row.creationTime, row.baseUrl>>

\* What save_items_to_csv leaves in the file it opened with 'w': the header row
\* and one row per item.
CsvFileText(its) ==
    writerow(fieldnames)
    \o Concat([k \in 1..Len(its) |-> writerow(RowFields(save_items_to_csv(its)[k]))])

\* The file object opened with newline='' hands the text over line by line, a
\* line ending after LF, after CR LF, or after a CR no LF follows; the reader
\* is told of the end of each line.
LineEndsAt(t, k) ==
    \/ t[k] = LF
    \/ t[k] = CR /\ ~(k < Len(t) /\ t[k + 1] = LF)
    \/ k = Len(t)

\* The characters from the k-th on, each line followed by EOL.
RECURSIVE MarkLines(_, _)
MarkLines(t, k) ==
    IF k > Len(t) THEN <<>>
    ELSE (IF LineEndsAt(t, k) THEN <<t[k], EOL>> ELSE <<t[k]>>) \o MarkLines(t, k + 1)

\* The reader before the first character of a record.
ReaderStart(rows) == [state |-> "START_RECORD", field |-> <<>>, fields |-> <<>>, rows |-> rows]

\* parse_save_field, and the state after a field that a line end closed; the
\* record is handed out once its line has ended.
SaveField(r, c) ==
    IF c = EOL THEN ReaderStart(Append(r.rows, Append(r.fields, r.field)))
    ELSE [r EXCEPT !.state = "EAT_CRNL", !.field = <<>>, !.fields = Append(r.fields, r.field)]

AddChar(r, c, st) == [r EXCEPT !.state = st, !.field = Append(r.field, c)]

\* parse_process_char
ProcessChar(r, c) ==
    CASE r.state = "START_RECORD" /\ c = EOL -> ReaderStart(Append(r.rows, <<>>))
      [] r.state = "START_RECORD" /\ c \in {CR, LF} -> [r EXCEPT !.state = "EAT_CRNL"]
      [] r.state \in {"START_RECORD", "START_FIELD"} /\ c \notin {CR, LF, EOL} ->
            IF c = quotechar THEN [r EXCEPT !.state = "IN_QUOTED_FIELD"]
            ELSE IF c = delimiter
                 THEN [r EXCEPT !.state = "START_FIELD", !.field = <<>>,
                                !.fields = Append(r.fields, r.field)]
            ELSE AddChar(r, c, "IN_FIELD")
      [] r.state = "START_FIELD" /\ c \in {CR, LF, EOL} -> SaveField(r, c)
      [] r.state = "IN_FIELD" ->
            IF c \in {CR, LF, EOL} THEN SaveField(r, c)
            ELSE IF c = delimiter
                 THEN [r EXCEPT !.state = "START_FIELD", !.field = <<>>,
                                !.fields = Append(r.fields, r.field)]
            ELSE AddChar(r, c, "IN_FIELD")
      [] r.state = "IN_QUOTED_FIELD" ->
            IF c = EOL THEN r
            ELSE IF c = quotechar THEN [r EXCEPT !.state = "QUOTE_IN_QUOTED_FIELD"]
            ELSE AddChar(r, c, "IN_QUOTED_FIELD")
      [] r.state = "QUOTE_IN_QUOTED_FIELD" ->
            IF c = quotechar THEN AddChar(r, c, "IN_QUOTED_FIELD")
            ELSE IF c = delimiter
                 THEN [r EXCEPT !.state = "START_FIELD", !.field = <<>>,
                                !.fields = Append(r.fields, r.field)]
            ELSE IF c \in {CR, LF, EOL} THEN SaveField(r, c)
            ELSE AddChar(r, c, "IN_FIELD")
      [] r.state = "EAT_CRNL" ->
            IF c \in {CR, LF} THEN r
            ELSE IF c = EOL THEN ReaderStart(Append(r.rows, r.fields))
            ELSE [r EXCEPT !.state = "Error"]
      [] OTHER -> r

\* The reader after the characters of t from the k-th on.
RECURSIVE ProcessText(_, _, _)
ProcessText(r, t, k) ==
    IF k > Len(t) \/ r.state = "Error" THEN r
    ELSE ProcessText(ProcessChar(r, t[k]), t, k + 1)

\* csv.reader over the whole file: the rows it yields.  At the end of the input
\* a field in progress, or an open quoted field, is saved and its row yielded.
reader(text) ==
    LET r == ProcessText(ReaderStart(<<>>), MarkLines(text, 1), 1)
    IN  IF r.field # <<>> \/ r.state = "IN_QUOTED_FIELD"
        THEN Append(r.rows, Append(r.fields, r.field))
        ELSE r.rows

\* row[key] of a DictReader row: the value at the key's place among the
\* fieldnames, None when the row is shorter, a KeyError without such a fieldname.
DictGet(names, row, key) ==
    LET ks == {k \in 1..Len(names) : names[k] = key}
    IN  IF ks = {} THEN "KeyError"
        ELSE LET k == CHOOSE x \in ks : \A y \in ks : y <= x
             IN  IF k <= Len(row) THEN row[k] ELSE "None"

\* csv.DictReader: the first row gives the fieldnames, rows without a field are
\* passed over, every other row becomes a dict.
DictReader(text) ==
    LET rs == reader(text)
        names == IF rs = <<>> THEN <<>> ELSE Head(rs)
        body == SelectSeq(IF rs = <<>> THEN <<>> ELSE Tail(rs), LAMBDA row : row # <<>>)
    IN  [k \in 1..Len(body) |->
            [id |-> DictGet(names, body[k], fieldnames[1]),
             filename |-> DictGet(names, body[k], fieldnames[2]),
             creationTime |-> DictGet(names, body[k], fieldnames[3]),
             baseUrl |-> DictGet(names, body[k], fieldnames[4])]]

\* What load_items_from_csv returns for a file of this text.
CsvFileItems(text) == load_items_from_csv(DictReader(text))

\* The fields, and the records handed to save_items_to_csv: the first one with
\* any id and any short baseUrl, a second one out of three.
CsvFields == SeqsUpTo(Chars, MaxFieldLen)
CsvRecord(i, f, c, b) ==
    [id |-> i, filename |-> f, creationTime |-> c, baseUrl |-> b, mimeType |-> "video/mp4"]
CsvFirst == {CsvRecord(i, <<"a">>, <<>>, b) : i \in CsvFields, b \in SeqsUpTo(Chars, 1)}
CsvSecond ==
    {CsvRecord(<<>>, <<>>, <<>>, <<>>),
     CsvRecord(<<"a">>, <<delimiter>>, <<quotechar>>, <<LF>>),
     CsvRecord(<<CR>>, <<"a", LF>>, <<"a">>, <<"a">>)}
CsvItemSeqs ==
    {<<>>} \cup {<<x>> : x \in CsvFirst} \cup {<<x, y>> : x \in CsvFirst, y \in CsvSecond}

\* The CSV file of the month: not there, or left by an earlier, longer save.
CsvOldFiles ==
    {<<>>,
     (csv_file(iterate_months(2023, 12, 2023, 12)[1])
        :> CsvFileText(<<CsvRecord(<<"a">>, <<"a">>, <<"a">>, <<"a">>),
                         CsvRecord(<<"a">>, <<"a">>, <<"a">>, <<"a">>),
                         CsvRecord(<<"a">>, <<"a">>, <<"a">>, <<"a">>)>>))}

InitCsv ==
    /\ mode = "months"
    /\ args = Args(2023, 12, 2023, 12)
    /\ ignore_cache = FALSE
    /\ scopes = iterate_months(2023, 12, 2023, 12)
    /\ remote = [sc \in Range(scopes) |-> Paginate(<<>>, PageLen)]
    /\ run = 1
    /\ pc = "save"
    /\ scopeIdx = 1
    /\ page_token = NoToken
    /\ items \in CsvItemSeqs
    /\ reqLog = <<>>
    /\ cache \in CsvOldFiles
    /\ disk = <<>>
    /\ wpc = <<>>
    /\ wres = <<>>
    /\ woff = <<>>
    /\ wurl = <<>>
    /\ outqueue = <<>>
    /\ skipped_count = 0
    /\ results = <<>>
    /\ summary = NoSummary
    /\ written = 0
    /\ existed = {}

\* save_items_to_csv(csv_file, items): open(csv_file, 'w') empties the file.
SaveItemsToCsv ==
    /\ pc = "save"
    /\ cache' = (csv_file(Scope) :> CsvFileText(items)) @@ cache
    /\ pc' = "load"
    /\ UNCHANGED <<args, inputs, run, scopeIdx, page_token, items, reqLog, disk, written,
                   poolVars>>

\* items = load_items_from_csv(csv_file)
LoadItemsFromCsv ==
    /\ pc = "load"
    /\ items' = CsvFileItems(cache[csv_file(Scope)])
    /\ pc' = "loaded"
    /\ UNCHANGED <<args, inputs, run, scopeIdx, page_token, reqLog, cache, disk, written,
                   poolVars>>

NextCsv ==
    \/ SaveItemsToCsv
    \/ LoadItemsFromCsv

SpecCsv == InitCsv /\ [][NextCsv]_vars

\* ------------------------------------------------- the iteration of scopes

\* The years and the months of the command lines considered.
Years == FirstYear..(FirstYear + MaxYears - 1)
Months == 1..12

\* Every month of those years holds the same record on the remote.
IterRemote ==
    [sc \in Range(iterate_months(FirstYear, 1, FirstYear + MaxYears - 1, 12)) |->
        Paginate(<<R1>>, PageLen)]

\* python main.py --start_year sy --start_month sm --end_year ey --end_month em:
\* valid_year and valid_month have accepted the four numbers.
InitIter ==
    /\ mode = "months"
    /\ ignore_cache = FALSE
    /\ \E sy \in Years, sm \in Months, ey \in Years, em \in Months :
            args = Args(sy, sm, ey, em)
    /\ scopes = <<>>
    /\ remote = IterRemote
    /\ pc = "args"
    /\ InitDir

\* One run of the program from its command line on.
NextIter ==
    \/ ParseArguments
    \/ HandleMonthFromApi
    \/ SearchLast
    \/ \E i \in Tasks : Dispatch(i) \/ CheckExists(i) \/ Fetch(i) \/ OpenFile(i) \/ WriteChunk(i)
    \/ Collect
    \/ EmitSummary
    \/ MainExit

SpecIter == InitIter /\ [][NextIter]_vars

\* ----------------------------------------------------------------- claims

\* Tasks whose download_item has ended with a value (not an exception).
Ended == {i \in Tasks : wres[i].kind = "ok"}
\* Tasks whose fetch returned no content length, or a content length of zero.
ZeroLength == {i \in Tasks : wurl[i] # NoUrl /\ FileSize(wurl[i]) = 0}
\* Tasks that opened their target path for writing.
Opened == {i \in Tasks : wpc[i] = "write" \/ woff[i] > 0}

\* C1: in the second run against the unchanged remote every item that reaches
\* an outcome is skipped, and the run writes nothing to disk.
C1_SecondRunIdempotent ==
    run = 2 => /\ written = 0
               /\ \A i \in Ended : wres[i] = SkipResult

\* C2: the summary of a scope of N records, K of them on disk when the scope
\* started, reports Skipped = K and Downloaded + Failed = N - K, Failed being the
\* items whose fetch had a zero content length.
C2_AggregateCounts ==
    summary.printed =>
        /\ summary.skipped = Cardinality(existed)
        /\ summary.downloaded + Cardinality(ZeroLength) = Len(items) - Cardinality(existed)

\* C3: a fetch with content length zero (or none) ends in an outcome of byte
\* count 0 that differs from the skipped one, with no file at the target path.
C3_ZeroLengthFailed ==
    \A i \in ZeroLength \cap Ended :
        /\ wres[i].file_size = 0
        /\ wres[i] # SkipResult
        /\ ~Exists(TargetPath(i))

C5_FailureIsolated ==
    (\E i \in Tasks : wres[i] = Raised) =>
        /\ pc # "raised"
        /\ \A j \in Tasks : wpc[j] # "killed"

\* C6: within one scope no target path is opened for writing by two tasks.
C6_DisjointPaths ==
    \A i, j \in Opened : i # j => TargetPath(i) # TargetPath(j)

\* C7: when the stream or the write of a download fails after the fetch, no file
\* is left at the item's target path.
C7_NoTruncatedFile ==
    \A i \in Tasks : (wres[i] = Raised /\ wurl[i] # NoUrl) => ~Exists(TargetPath(i))

\* The pages the remote has served for the current scope's requests so far.
Served == [k \in 1..Len(reqLog) |-> remote[Scope][k]]

\* C8: fetch_items_from_api returns the records of all pages, concatenated in page
\* order with nothing dropped or deduplicated, after one request per page, and it
\* goes on exactly as long as the responses carry a continuation token.
C8_Enumeration ==
    /\ pc = "fetch" =>
        /\ Len(reqLog) < Len(remote[Scope])
        /\ items = AllItems(Served)
    /\ pc = "pool" =>
        /\ Len(reqLog) = Len(remote[Scope])
        /\ items = AllItems(remote[Scope])

\* C8's case: three pages were fetched and a record that two pages hold is
\* returned twice.
C8_Witness ==
    /\ pc = "pool"
    /\ Len(remote[Scope]) = 3
    /\ Len(items) = 2
    /\ items[1] = items[2]
    /\ remote[Scope][1].mediaItems # <<>>
    /\ remote[Scope][3].mediaItems # <<>>

\* C9: a search request that raises ends the program at once (no retry); no
\* worker exists while a scope is enumerated, and no step from the start of an
\* enumeration to its failure writes or changes a cache file.
C9_EnumFailureAborts ==
    /\ [](pc = "fetch" => wpc = <<>>)
    /\ [][(pc = "fetch" /\ SearchPage.err) =>
            /\ pc' = "raised"
            /\ reqLog' = Append(reqLog, Request)
            /\ wpc' = <<>>]_vars
    /\ [][(pc' = "fetch" \/ (pc = "fetch" /\ pc' = "raised")) => cache' = cache]_vars
    /\ [][pc = "raised" => (run' = run + 1 /\ cache' = cache /\ disk' = disk)]_vars

\* C9's case: the second request of a month raised after a page of records had
\* been fetched; no worker was started and the month has no CSV file.
C9_Witness ==
    /\ mode = "months" /\ pc = "raised"
    /\ wpc = <<>>
    /\ Len(reqLog) = 2
    /\ items # <<>>
    /\ csv_file(Scope) \notin DOMAIN cache

\* C10: at most 8 download_item invocations are in progress at any moment.
C10_BoundedConcurrency == Cardinality(InProgress) <= 8

\* C10's case: 8 downloads are in progress and a task waits in the queue.
C10_Witness ==
    /\ Cardinality(InProgress) = 8
    /\ \E i \in Tasks : wpc[i] = "queued"

\* C11: the scopes are processed one after another: the step that takes scope
\* N+1 from the iterator is taken only when every task of scope N has returned,
\* every result has been collected and scope N's summary has been printed; no
\* download_item runs outside the pool of the current scope's handle_items, and
\* every search request carries the current scope's filter.
C11_CrossScopeBarrier ==
    /\ [][(scopeIdx' = scopeIdx + 1 /\ scopeIdx >= 1) =>
            /\ pc = "main"
            /\ summary.printed
            /\ Len(results) = Len(items)
            /\ outqueue = <<>>
            /\ \A i \in Tasks : wpc[i] = "returned"]_vars
    /\ [](pc # "pool" => InProgress = {})
    /\ [](\A k \in 1..Len(reqLog) : reqLog[k].filter = Scope)
    /\ [][(scopeIdx' # scopeIdx /\ run' = run) => scopeIdx' = scopeIdx + 1]_vars

\* C11's case: a download of the second scope is writing, in a run whose first
\* scope had a record to download.
C11_Witness ==
    /\ run = 1 /\ scopeIdx = 2 /\ pc = "pool"
    /\ AllItems(remote[scopes[1]]) # <<>>
    /\ \E i \in Tasks : wpc[i] = "write"

\* The pairs from the start pair to the end pair, by counting months.
ExpectedMonths(a) ==
    [k \in 1..((a.end_year * 12 + a.end_month) - (a.start_year * 12 + a.start_month) + 1) |->
        [kind |-> "month",
         year |-> (a.start_year * 12 + a.start_month - 1 + k - 1) \div 12,
         month |-> ((a.start_year * 12 + a.start_month - 1 + k - 1) % 12) + 1,
         album |-> ""]]

\* C12: for a start pair not after the end pair, iterate_months yields exactly
\* the consecutive (year, month) pairs from start to end inclusive, ascending,
\* each once, month 12 followed by month 1 of the next year, and terminates: main
\* handles these months in this order and then ends.
C12_IterateMonths ==
    pc \notin {"args", "sys_exit"} =>
        /\ scopes = ExpectedMonths(args)
        /\ Len(scopes) >= 1
        /\ scopes[1].year = args.start_year /\ scopes[1].month = args.start_month
        /\ scopes[Len(scopes)].year = args.end_year
        /\ scopes[Len(scopes)].month = args.end_month
        /\ \A k \in 1..(Len(scopes) - 1) :
              IF scopes[k].month = 12
              THEN scopes[k + 1].year = scopes[k].year + 1 /\ scopes[k + 1].month = 1
              ELSE scopes[k + 1].year = scopes[k].year
                   /\ scopes[k + 1].month = scopes[k].month + 1
        /\ DOMAIN cache = {csv_file(scopes[k]) : k \in 1..(IF pc = "fetch" THEN scopeIdx - 1 ELSE scopeIdx)}
        /\ pc = "exit" => scopeIdx = Len(scopes)

\* C12's case: the months from 2023-11 to 2024-02 have been handled.
C12_Witness ==
    /\ args = Args(2023, 11, 2024, 2)
    /\ pc = "exit"
    /\ scopes = <<[kind |-> "month", year |-> 2023, month |-> 11, album |-> ""],
                  [kind |-> "month", year |-> 2023, month |-> 12, album |-> ""],
                  [kind |-> "month", year |-> 2024, month |-> 1, album |-> ""],
                  [kind |-> "month", year |-> 2024, month |-> 2, album |-> ""]>>
    /\ scopeIdx = 4

C14_CacheRoundTrip ==
    /\ [][pc = "load" =>
            /\ Len(items') = Len(items)
            /\ \A k \in 1..Len(items) :
                  /\ items'[k].id = items[k].id
                  /\ items'[k].filename = items[k].filename
                  /\ items'[k].creationTime = items[k].creationTime
                  /\ items'[k].baseUrl = items[k].baseUrl]_vars
    /\ [][(pc = "save" /\ pc' = "load") =>
            /\ DOMAIN cache' = {csv_file(Scope)}
            /\ CsvFileItems(cache'[csv_file(Scope)]) = load_items_from_csv(save_items_to_csv(items))]_vars

\* C14's case: two records, the first with a quotechar and a line feed in its
\* id, have been read back from the file that replaced a longer one.
C14_Witness ==
    /\ pc = "loaded"
    /\ Len(items) = 2
    /\ items[1].id = <<quotechar, LF>>
    /\ items[1].baseUrl = <<delimiter>>
    /\ items[1].mimeType = "absent"
    /\ items[2].id = <<>> /\ items[2].baseUrl = <<>>
    /\ Len(reader(cache[csv_file(Scope)])) = 3

\* C15: the URL a download_item has fetched is the record's baseUrl followed by
\* '=dv' when the record's mimeType contains "video", and by '=d' for every
\* other record, those without mimeType included; a task that has not fetched
\* has no URL.
C15_UrlSelection ==
    \A i \in Tasks :
        /\ wpc[i] \in {"queued", "start", "fetch"} => wurl[i] = NoUrl
        /\ wpc[i] \in {"open", "write"} => wurl[i] # NoUrl
        /\ wurl[i] # NoUrl =>
              /\ wurl[i].base = items[i].baseUrl
              /\ wurl[i].suffix = (IF items[i].mimeType = "video/mp4" THEN "=dv" ELSE "=d")

\* C15's case: a video record was fetched with '=dv' and a record without
\* mimeType with '=d'.
C15_Witness ==
    /\ pc = "pool" /\ Len(items) = 2
    /\ items[1].mimeType = "video/mp4" /\ wurl[1] = [base |-> "u1", suffix |-> "=dv"]
    /\ items[2].mimeType = "absent" /\ wurl[2] = [base |-> "u0", suffix |-> "=d"]

\* C16: a download_item that finds a file at its target path returns the skipped
\* result with byte count 0 at once: it fetches no URL, and its step leaves
\* every file as it is; a task that returned without fetching never wrote.
C16_SkipOnExists ==
    /\ [][\A i \in Tasks :
            (/\ pc = "pool" /\ pc' = "pool"
             /\ wpc[i] = "start" /\ wpc'[i] # "start"
             /\ parse_timestamp(items[i].creationTime).ok
             /\ Exists(TargetPath(i)))
            => /\ wpc'[i] = "returned"
               /\ wres'[i] = SkipResult
               /\ wres'[i].file_size = 0 /\ wres'[i].is_skipped
               /\ wurl'[i] = NoUrl
               /\ outqueue' = Append(outqueue, SkipResult)
               /\ disk' = disk
               /\ written' = written]_vars
    /\ [](\A i \in Tasks :
            (wpc[i] = "returned" /\ wres[i] = SkipResult /\ wurl[i] = NoUrl)
            => /\ Exists(TargetPath(i))
               /\ woff[i] = 0)

\* C16's case: in a second run a record whose file the first run wrote in full
\* has been skipped without a fetch.
C16_Witness ==
    /\ run = 2 /\ pc = "pool"
    /\ \E i \in Tasks :
          /\ wpc[i] = "returned" /\ wres[i] = SkipResult /\ wurl[i] = NoUrl
          /\ disk[TargetPath(i)] = 2
          /\ written = 0

\* C17: skipped_count and results change only in a step of handle_items' own
\* loop that takes a result from the pool's queue (or start anew with a scope),
\* never in a step of a task; and the totals printed are the number of skipped
\* results, the number of the others and the sum of the byte counts over the
\* tasks, whatever the order in which the results arrived.
C17_OrderIndependentTotals ==
    /\ [][(skipped_count' # skipped_count \/ results' # results) =>
            \/ /\ pc = "pool" /\ pc' = "pool"
               /\ outqueue # <<>> /\ outqueue' = Tail(outqueue)
               /\ wpc' = wpc /\ wres' = wres /\ woff' = woff /\ disk' = disk
            \/ /\ skipped_count' = 0 /\ results' = <<>>
               /\ \A i \in DOMAIN wpc' : wpc'[i] = "queued"]_vars
    /\ [](summary.printed =>
            /\ summary.skipped = Cardinality({i \in Tasks : wres[i].is_skipped})
            /\ summary.downloaded = Cardinality({i \in Tasks : ~wres[i].is_skipped})
            /\ summary.total_size = SumSeq([i \in 1..Len(items) |-> wres[i].file_size]))

\* C17's case: the totals of two records were printed after the second
\* record's result had arrived before the first one's.
C17_Witness ==
    /\ summary.printed
    /\ Len(items) = 2
    /\ results = <<wres[2].file_size, wres[1].file_size>>
    /\ wres[1].file_size = 2 /\ ~wres[1].is_skipped
    /\ wres[2].is_skipped
    /\ summary = [printed |-> TRUE, downloaded |-> 1, skipped |-> 1, total_size |-> 2]

\* C18: in a month whose records come from its CSV file no record has a
\* mimeType, and every URL fetched for the month ends in '=d', also for a record
\* the remote lists with a video mimeType.
C18_CacheHitUsesPhotoSuffix ==
    (mode = "months" /\ scopeIdx >= 1 /\ reqLog = <<>> /\ pc \in {"pool", "main", "exit", "raised"}) =>
        \A i \in Tasks :
            /\ items[i].mimeType = "absent"
            /\ wurl[i] # NoUrl => wurl[i].suffix = "=d"

\* C18's case: a record the remote lists as a video, loaded from the CSV file
\* in a second run, has been fetched with '=d'.
C18_Witness ==
    /\ mode = "months" /\ run = 2 /\ pc = "pool" /\ reqLog = <<>>
    /\ \E i \in Tasks :
          /\ AllItems(remote[Scope])[i].mimeType = "video/mp4"
          /\ items[i].id = AllItems(remote[Scope])[i].id
          /\ wurl[i] = [base |-> items[i].baseUrl, suffix |-> "=d"]

\* The nextPageToken of the remote's response to a request (NoToken: none).
ResponseToken(req) ==
    LET p == IF req.pageToken = NoToken THEN 1 ELSE req.pageToken
    IN  IF p < Len(remote[req.filter]) THEN p + 1 ELSE NoToken

\* C19: the first search request of a scope carries no page token, every later
\* one carries the nextPageToken of the response to the request before it, a
\* request follows only a response with a token, and all carry the scope's
\* filter.
C19_TokenThreading ==
    \A k \in 1..Len(reqLog) :
        /\ reqLog[k].filter = Scope
        /\ IF k = 1 THEN reqLog[k].pageToken = NoToken
           ELSE /\ ResponseToken(reqLog[k - 1]) # NoToken
                /\ reqLog[k].pageToken = ResponseToken(reqLog[k - 1])
        /\ (k = Len(reqLog) /\ pc = "fetch") => page_token = ResponseToken(reqLog[k])

\* C19's case: three requests were issued for a scope, the second and the third
\* with the token of the response before.
C19_Witness ==
    /\ pc = "pool"
    /\ Len(reqLog) = 3
    /\ reqLog[1].pageToken = NoToken
    /\ reqLog[2].pageToken = ResponseToken(reqLog[1]) /\ reqLog[2].pageToken # NoToken
    /\ reqLog[3].pageToken = ResponseToken(reqLog[2]) /\ reqLog[3].pageToken # reqLog[2].pageToken
    /\ ResponseToken(reqLog[3]) = NoToken

====
